---- MODULE Spec2Model ----
(***************************************************************************)
(* Model of the document-source registry and the query fan-out of          *)
(* mcp-ARCknowledge.  Two variants of the server exist:                    *)
(*   main.py   - registry persisted to document_sources.json, POST query   *)
(*   server.py - in-memory registry only, GET query                        *)
(* One behaviour follows one variant (chosen in Init).  Tool handlers are   *)
(* synchronous functions, so a handler runs to completion before the next  *)
(* one starts; query_rag is split at its HTTP requests, whose answers      *)
(* are chosen by the environment, and at the hand-over of its result.      *)
(***************************************************************************)
EXTENDS Integers, Sequences, FiniteSets, TLC

VARIABLES
    variant,            \* "main" or "server": which program is running
    document_sources,   \* the module-level dict: ordered sequence of [k, v]
    file,               \* content of document_sources.json
    q,                  \* the query_rag call in progress or last returned
    ret,                \* value returned by the last tool call
    returned,           \* history: the [id, url] pairs set_document_source has returned
    calls               \* set_document_source calls run step by step (SpecConc only)

vars == <<variant, document_sources, file, q, ret, returned, calls>>

----------------------------------------------------------------------------
(* Bounds *)

MaxSources == 2         \* largest id number a registration may assign
MaxSourceIds == 2       \* longest source_ids list passed to query_rag

----------------------------------------------------------------------------
(* Python values *)

\* str(n) for n >= 0, digit by digit
Digit == <<"0", "1", "2", "3", "4", "5", "6", "7", "8", "9">>

RECURSIVE Str(_)
Str(n) == IF n < 10 THEN Digit[n + 1] ELSE Str(n \div 10) \o Digit[(n % 10) + 1]

\* URLs, already split the way urlparse splits them
UrlA == [scheme |-> "http", netloc |-> "a"]
UrlB == [scheme |-> "http", netloc |-> "b"]
UrlNoScheme == [scheme |-> "", netloc |-> "a"]
UrlNoHost == [scheme |-> "http", netloc |-> ""]
NoUrl == [scheme |-> "", netloc |-> ""]

URLs == {UrlA, UrlNoScheme, UrlNoHost}
Descriptions == {""}

\* urlparse(url).scheme and urlparse(url).netloc both non-empty
WellFormed(url) == url.scheme # "" /\ url.netloc # ""

\* An insertion-ordered dict is a sequence of [k, v] with distinct keys.
DictKeys(d) == [i \in 1..Len(d) |-> d[i].k]
DictKeySet(d) == {d[i].k : i \in 1..Len(d)}
DictHas(d, key) == \E i \in 1..Len(d) : d[i].k = key
DictGet(d, key) == d[CHOOSE i \in 1..Len(d) : d[i].k = key].v

\* d[key] = val: an existing key keeps its position, a new key is appended
DictSet(d, key, val) ==
    IF DictHas(d, key)
    THEN [i \in 1..Len(d) |-> IF d[i].k = key THEN [k |-> key, v |-> val] ELSE d[i]]
    ELSE Append(d, [k |-> key, v |-> val])

----------------------------------------------------------------------------
(* The durable document *)

\* What open() + json.load() find at a path:
\*   absent      FileNotFoundError
\*   unparsable  json.JSONDecodeError
\*   scalar      a JSON number, boolean or null (len() raises TypeError)
\*   array       a JSON array or string of n items (len() works, d["k"] = v raises)
\*   object      a JSON object, entries in document order
Absent == [kind |-> "absent", n |-> 0, entries |-> <<>>]
Unparsable == [kind |-> "unparsable", n |-> 0, entries |-> <<>>]
Scalar == [kind |-> "scalar", n |-> 0, entries |-> <<>>]
Array(n) == [kind |-> "array", n |-> n, entries |-> <<>>]
Object(entries) == [kind |-> "object", n |-> Len(entries), entries |-> entries]

\* Values of a JSON object entry
BareUrl(url) == [shape |-> "str", url |-> url, description |-> ""]
UrlObject(url, description) == [shape |-> "obj", url |-> url, description |-> description]
NoUrlObject == [shape |-> "bad", url |-> NoUrl, description |-> ""]

\* Documents found on disk before the first run, and documents a caller may
\* name in file_path: hand-written configuration in both accepted shapes.
DocHandWritten == Object(<<[k |-> "2", v |-> BareUrl(UrlA)]>>)
DocMixed == Object(<<[k |-> "k", v |-> BareUrl(UrlB)],
                     [k |-> "1", v |-> UrlObject(UrlA, "d")]>>)
DocBadEntry == Object(<<[k |-> "1", v |-> BareUrl(UrlA)],
                        [k |-> "x", v |-> NoUrlObject],
                        [k |-> "2", v |-> BareUrl(UrlB)]>>)

InitialDocs == {Absent, Unparsable, Scalar, Array(0), DocHandWritten}
ExternalDocs == {DocMixed, DocBadEntry}

\* Outcome of the operating system calls of one handler
IOs == {"ok", "read_error", "write_error"}

----------------------------------------------------------------------------
(* Return values and the query call record *)

Ret(op, msg, id, n, val) == [op |-> op, msg |-> msg, id |-> id, n |-> n, val |-> val]

QIdle == [pc |-> "idle", query |-> "", none |-> TRUE, source_ids |-> <<>>,
          targets |-> <<>>, requests |-> <<>>, results |-> <<>>]

\* No query_rag call is on the stack: tool calls are served one at a time
Idle == q.pc = "idle"

----------------------------------------------------------------------------
(* main.py: set_document_source *)

\* source_id = str(len(file_sources) + 1)
main_source_id(file_sources) == Str(Len(file_sources) + 1)

\* file_sources after the inner try/except: {} when the file is absent or unparsable
main_file_sources(f) == IF f.kind = "object" THEN f.entries ELSE <<>>

main_set_document_source(source, io) ==
    /\ variant = "main"
    /\ Idle
    /\ q' = QIdle
    /\ UNCHANGED calls
    /\ IF ~source.hasUrl
       THEN /\ ret' = Ret("set_document_source", "Error: URL is required", "", 0, NoUrl)
            /\ UNCHANGED <<variant, document_sources, file, returned>>
       ELSE IF io = "read_error" \/ file.kind = "scalar"
       THEN \* open() raised something else, or len() raised TypeError
            /\ ret' = Ret("set_document_source", "Error saving to file", "", 0, source.url)
            /\ UNCHANGED <<variant, document_sources, file, returned>>
       ELSE IF file.kind = "array"
       THEN \* len() worked, the item assignment raises after the dict was written
            /\ file.n + 1 <= MaxSources
            /\ document_sources' = DictSet(document_sources, Str(file.n + 1), source.url)
            /\ ret' = Ret("set_document_source", "Error saving to file", "", 0, source.url)
            /\ UNCHANGED <<variant, file, returned>>
       ELSE LET file_sources == main_file_sources(file)
                source_id == main_source_id(file_sources)
            IN  /\ Len(file_sources) + 1 <= MaxSources
                /\ document_sources' = DictSet(document_sources, source_id, source.url)
                /\ IF io = "write_error"
                   THEN /\ ret' = Ret("set_document_source", "Error saving to file",
                                      "", 0, source.url)
                        /\ UNCHANGED <<variant, file, returned>>
                   ELSE /\ file' = Object(DictSet(file_sources, source_id,
                                           UrlObject(source.url, source.description)))
                        /\ ret' = Ret("set_document_source",
                                      "Document source registered with ID: ",
                                      source_id, 0, source.url)
                        /\ returned' = returned \cup {[id |-> source_id, url |-> source.url]}
                        /\ UNCHANGED variant

----------------------------------------------------------------------------
(* main.py: load_document_sources_from_file *)

\* Index of the first entry that is neither a string nor a dict with 'url'; 0 if none
FirstBad(entries) ==
    IF \E i \in 1..Len(entries) : entries[i].v.shape = "bad"
    THEN CHOOSE i \in 1..Len(entries) :
            /\ entries[i].v.shape = "bad"
            /\ \A j \in 1..(i - 1) : entries[j].v.shape # "bad"
    ELSE 0

\* Mutant: an id already in the registry keeps its URL (setdefault)
RECURSIVE LoadEntries_KeepExisting(_, _, _)
LoadEntries_KeepExisting(d, entries, n) ==
    IF n = 0 THEN d
    ELSE LET rest == LoadEntries_KeepExisting(d, entries, n - 1)
         IN  IF DictHas(rest, entries[n].k) THEN rest
             ELSE DictSet(rest, entries[n].k, entries[n].v.url)

\* The for loop over sources.items(), run over the first n entries
RECURSIVE LoadEntries(_, _, _)
LoadEntries(d, entries, n) ==
    IF n = 0 THEN d
    ELSE DictSet(LoadEntries(d, entries, n - 1), entries[n].k, entries[n].v.url)

main_load_document_sources_from_file(doc, io) ==
    /\ variant = "main"
    /\ Idle
    /\ q' = QIdle
    /\ UNCHANGED <<variant, file, returned, calls>>
    /\ IF io = "read_error"
       THEN /\ ret' = Ret("load_document_sources_from_file",
                          "Error loading document sources", "", 0, <<>>)
            /\ UNCHANGED document_sources
       ELSE IF doc.kind = "absent"
       THEN /\ ret' = Ret("load_document_sources_from_file", "Error: File not found", "", 0, <<>>)
            /\ UNCHANGED document_sources
       ELSE IF doc.kind = "unparsable"
       THEN /\ ret' = Ret("load_document_sources_from_file",
                          "Error: Invalid JSON format", "", 0, <<>>)
            /\ UNCHANGED document_sources
       ELSE IF doc.kind # "object"
       THEN /\ ret' = Ret("load_document_sources_from_file",
                          "Error: JSON file must contain a dictionary of sources", "", 0, <<>>)
            /\ UNCHANGED document_sources
       ELSE LET bad == FirstBad(doc.entries)
            IN  IF bad # 0
                THEN /\ document_sources' = LoadEntries(document_sources, doc.entries, bad - 1)
                     /\ ret' = Ret("load_document_sources_from_file",
                                   "Error: Invalid source format for ID ",
                                   doc.entries[bad].k, 0, <<>>)
                ELSE /\ document_sources' =
                            LoadEntries(document_sources, doc.entries, Len(doc.entries))
                     /\ ret' = Ret("load_document_sources_from_file",
                                   "Successfully loaded", "", Len(doc.entries), <<>>)

----------------------------------------------------------------------------
(* server.py: set_document_source *)

\* Mutant: ids count from zero
server_source_id_zero_based(d) == Str(Len(d))

server_source_id(d) == Str(Len(d) + 1)

server_set_document_source(source) ==
    /\ variant = "server"
    /\ Idle
    /\ q' = QIdle
    /\ UNCHANGED <<variant, file, calls>>
    /\ IF ~WellFormed(source.url)
       THEN /\ ret' = Ret("set_document_source", "Error: Invalid URL format", "", 0, source.url)
            /\ UNCHANGED <<document_sources, returned>>
       ELSE /\ Len(document_sources) + 1 <= MaxSources
            /\ document_sources' =
                    DictSet(document_sources, server_source_id(document_sources), source.url)
            /\ ret' = Ret("set_document_source", "Document source registered with ID: ",
                          server_source_id(document_sources), 0, source.url)
            /\ returned' = returned \cup
                    {[id |-> server_source_id(document_sources), url |-> source.url]}

----------------------------------------------------------------------------
(* list_document_sources, identical in both variants *)

\* Mutant: an empty registry is filled from the default document before it is listed
list_document_sources_autoload ==
    /\ Idle
    /\ q' = QIdle
    /\ document_sources' =
            IF Len(document_sources) = 0 /\ file.kind = "object" /\ FirstBad(file.entries) = 0
            THEN LoadEntries(<<>>, file.entries, Len(file.entries))
            ELSE document_sources
    /\ ret' = Ret("list_document_sources", "", "", 0, document_sources')
    /\ UNCHANGED <<variant, file, returned, calls>>

list_document_sources ==
    /\ Idle
    /\ q' = QIdle
    /\ ret' = Ret("list_document_sources", "", "", 0, document_sources)
    /\ UNCHANGED <<variant, document_sources, file, returned, calls>>

\* The process exits and starts again: module state is rebuilt, the file stays
Restart ==
    /\ Idle
    /\ q' = QIdle
    /\ document_sources' = <<>>
    /\ ret' = Ret("restart", "", "", 0, <<>>)
    /\ UNCHANGED <<variant, file, returned, calls>>

----------------------------------------------------------------------------
(* query_rag *)

\* What requests.post / requests.get produce: a response, or an exception
Response(status, text) == [exc |-> FALSE, status |-> status, text |-> text]
TransportError == [exc |-> TRUE, status |-> 0, text |-> "Connection refused"]

Responses == {Response(200, "{}"), Response(201, "{}"), Response(500, "oops"), TransportError}

Queries == {"hello"}

\* source_ids: None, or a list of ids
NoneArg == [none |-> TRUE, ids |-> <<>>]
ListArg(ids) == [none |-> FALSE, ids |-> ids]
ArgIds == {"1", "2", "9"}
SourceIdArgs ==
    {NoneArg} \cup {ListArg(ids) : ids \in UNION {[1..n -> ArgIds] : n \in 0..MaxSourceIds}}

\* {id: document_sources[id] for id in source_ids if id in document_sources},
\* over the first n items of source_ids
RECURSIVE Comprehension(_, _, _)
Comprehension(d, ids, n) ==
    IF n = 0 THEN <<>>
    ELSE LET rest == Comprehension(d, ids, n - 1)
         IN  IF DictHas(d, ids[n]) THEN DictSet(rest, ids[n], DictGet(d, ids[n])) ELSE rest

\* "if source_ids:" is false for None and for the empty list
Truthy(arg) == ~arg.none /\ Len(arg.ids) > 0

\* Mutant: the registry is filtered by source_ids, so its own order is kept
RECURSIVE FilterRegistry(_, _, _)
FilterRegistry(d, ids, n) ==
    IF n = 0 THEN <<>>
    ELSE IF \E i \in 1..Len(ids) : ids[i] = d[n].k
         THEN Append(FilterRegistry(d, ids, n - 1), d[n])
         ELSE FilterRegistry(d, ids, n - 1)

server_sources_to_query_registry_order(d, arg) ==
    IF Truthy(arg) THEN FilterRegistry(d, arg.ids, Len(d)) ELSE d

\* Mutant: source_ids is ignored and every source is queried
main_sources_to_query_all(d, arg) == d

main_sources_to_query(d, arg) ==
    IF Truthy(arg) THEN Comprehension(d, arg.ids, Len(arg.ids)) ELSE d

\* Mutant: a selection that matches nothing falls back to every source
server_sources_to_query_fallback(d, arg) ==
    IF Truthy(arg) /\ Comprehension(d, arg.ids, Len(arg.ids)) # <<>>
    THEN Comprehension(d, arg.ids, Len(arg.ids))
    ELSE d

server_sources_to_query(d, arg) ==
    IF Truthy(arg) THEN Comprehension(d, arg.ids, Len(arg.ids)) ELSE d

\* One line of results
Line(id, msg, text, n) == [id |-> id, msg |-> msg, text |-> text, n |-> n]

main_result(source_id, resp) ==
    IF resp.exc THEN Line(source_id, "Error - ", resp.text, -1)
    ELSE IF resp.status = 200 THEN Line(source_id, "", resp.text, -1)
    ELSE Line(source_id, "Failed to retrieve content. Status code: ", "", resp.status)

server_result(source_id, resp) ==
    IF resp.exc THEN Line(source_id, "Error - ", resp.text, -1)
    ELSE IF resp.status = 200 THEN Line(source_id, "Retrieved characters", "", Len(resp.text))
    ELSE Line(source_id, "Failed to retrieve content", "", -1)

\* Mutant: the check for an empty registry is missing
QueryCall_NoEmptyCheck(query, arg, targets) ==
    /\ Idle
    /\ UNCHANGED <<variant, document_sources, file, returned, calls>>
    /\ IF Truthy(arg) /\ Len(targets) = 0
       THEN /\ q' = [QIdle EXCEPT !.pc = "done", !.query = query,
                                  !.none = arg.none, !.source_ids = arg.ids]
            /\ ret' = Ret("query_rag", "Error: No valid source IDs provided", "", 0, <<>>)
       ELSE /\ q' = [QIdle EXCEPT !.pc = "running", !.query = query, !.none = arg.none,
                                  !.source_ids = arg.ids, !.targets = targets]
            /\ ret' = Ret("query_rag", "pending", "", 0, <<>>)

QueryCall(query, arg, targets) ==
    /\ Idle
    /\ UNCHANGED <<variant, document_sources, file, returned, calls>>
    /\ IF Len(document_sources) = 0
       THEN /\ q' = [QIdle EXCEPT !.pc = "done", !.query = query,
                                  !.none = arg.none, !.source_ids = arg.ids]
            /\ ret' = Ret("query_rag", "Error: No document sources registered", "", 0, <<>>)
       ELSE IF Truthy(arg) /\ Len(targets) = 0
       THEN /\ q' = [QIdle EXCEPT !.pc = "done", !.query = query,
                                  !.none = arg.none, !.source_ids = arg.ids]
            /\ ret' = Ret("query_rag", "Error: No valid source IDs provided", "", 0, <<>>)
       ELSE /\ q' = [QIdle EXCEPT !.pc = "running", !.query = query, !.none = arg.none,
                                  !.source_ids = arg.ids, !.targets = targets]
            /\ ret' = Ret("query_rag", "pending", "", 0, <<>>)

main_query_rag(query, arg) ==
    /\ variant = "main"
    /\ QueryCall(query, arg, main_sources_to_query(document_sources, arg))

server_query_rag(query, arg) ==
    /\ variant = "server"
    /\ QueryCall(query, arg, server_sources_to_query(document_sources, arg))

\* Mutant: an exception starts the loop again from the first source
LoopPass_restart(request, line, targets) ==
    IF request.resp.exc
    THEN /\ q' = [q EXCEPT !.requests = <<>>, !.results = <<>>]
         /\ ret' = ret
    ELSE /\ q' = [q EXCEPT !.requests = Append(@, request),
                           !.results = Append(@, line),
                           !.targets = targets,
                           !.pc = IF Len(q.results) + 1 = Len(targets) THEN "done" ELSE "running"]
         /\ ret' = IF Len(q.results) + 1 = Len(targets)
                   THEN Ret("query_rag", "", "", 0, Append(q.results, line))
                   ELSE ret

\* One pass of the for loop appends a request and its line; after the last
\* target the loop ends and "\n".join(results) is returned, one line per element.
LoopPass(request, line, targets) ==
    /\ q' = [q EXCEPT !.requests = Append(@, request),
                      !.results = Append(@, line),
                      !.targets = targets,
                      !.pc = IF Len(q.results) + 1 = Len(targets) THEN "done" ELSE "running"]
    /\ ret' = IF Len(q.results) + 1 = Len(targets)
              THEN Ret("query_rag", "", "", 0, Append(q.results, line))
              ELSE ret

\* Mutant: the try/except encloses the loop, so the first exception ends it
main_query_rag_request_abort(resp) ==
    /\ variant = "main"
    /\ q.pc = "running"
    /\ Len(q.results) < Len(q.targets)
    /\ LET t == q.targets[Len(q.results) + 1]
       IN  LoopPass([method |-> "POST", url |-> t.v, chatInput |-> q.query, resp |-> resp],
                    main_result(t.k, resp),
                    IF resp.exc THEN SubSeq(q.targets, 1, Len(q.results) + 1) ELSE q.targets)
    /\ UNCHANGED <<variant, document_sources, file, returned, calls>>

\* The request to the next source and its result line
main_query_rag_request(resp) ==
    /\ variant = "main"
    /\ q.pc = "running"
    /\ Len(q.results) < Len(q.targets)
    /\ LET t == q.targets[Len(q.results) + 1]
       IN  LoopPass([method |-> "POST", url |-> t.v, chatInput |-> q.query, resp |-> resp],
                    main_result(t.k, resp), q.targets)
    /\ UNCHANGED <<variant, document_sources, file, returned, calls>>

server_query_rag_request(resp) ==
    /\ variant = "server"
    /\ q.pc = "running"
    /\ Len(q.results) < Len(q.targets)
    /\ LET t == q.targets[Len(q.results) + 1]
       IN  LoopPass([method |-> "GET", url |-> t.v, chatInput |-> "", resp |-> resp],
                    server_result(t.k, resp), q.targets)
    /\ UNCHANGED <<variant, document_sources, file, returned, calls>>

\* The tool wrapper hands the returned text to the caller; the call is over
query_rag_reply ==
    /\ q.pc = "done"
    /\ q' = QIdle
    /\ ret' = Ret("query_rag", "delivered", "", 0, <<>>)
    /\ UNCHANGED <<variant, document_sources, file, returned, calls>>

----------------------------------------------------------------------------
(* Specification *)

\* main.py takes a dict that may lack 'url'; server.py takes a DocumentSource
MainSources == [hasUrl : {TRUE}, url : URLs, description : Descriptions]
                    \cup {[hasUrl |-> FALSE, url |-> NoUrl, description |-> ""]}
ServerSources == [url : URLs \cup {UrlB}, description : Descriptions]

Init ==
    /\ variant \in {"main", "server"}
    /\ document_sources = <<>>
    /\ file \in (IF variant = "main" THEN InitialDocs ELSE {Absent})
    /\ q = QIdle
    /\ ret = Ret("start", "", "", 0, <<>>)
    /\ returned = {}
    /\ calls = <<>>

Next ==
    \/ \E source \in MainSources, io \in IOs : main_set_document_source(source, io)
    \/ \E doc \in {file} \cup ExternalDocs, io \in IOs :
            main_load_document_sources_from_file(doc, io)
    \/ \E source \in ServerSources : server_set_document_source(source)
    \/ list_document_sources
    \/ \E query \in Queries, arg \in SourceIdArgs : main_query_rag(query, arg)
    \/ \E query \in Queries, arg \in SourceIdArgs : server_query_rag(query, arg)
    \/ \E resp \in Responses : main_query_rag_request(resp)
    \/ \E resp \in Responses : server_query_rag_request(resp)
    \/ query_rag_reply
    \/ Restart

Spec == Init /\ [][Next]_vars

\* requests.post and requests.get block until a response or an exception:
\* a pass of the loop that has started is completed (every pass changes q)
Fairness ==
    /\ WF_q(\E resp \in Responses : main_query_rag_request(resp))
    /\ WF_q(\E resp \in Responses : server_query_rag_request(resp))

\* query_rag calls on a registry of n sources registered earlier
InitLive ==
    /\ variant \in {"main", "server"}
    /\ \E n \in 0..MaxSources :
            document_sources = [i \in 1..n |-> [k |-> Str(i),
                                                v |-> IF i = 1 THEN UrlA ELSE UrlB]]
    /\ file = Absent
    /\ q = QIdle
    /\ ret = Ret("start", "", "", 0, <<>>)
    /\ returned = {[id |-> document_sources[i].k, url |-> document_sources[i].v] :
                        i \in 1..Len(document_sources)}
    /\ calls = <<>>

NextLive ==
    \/ \E query \in Queries, arg \in SourceIdArgs : main_query_rag(query, arg)
    \/ \E query \in Queries, arg \in SourceIdArgs : server_query_rag(query, arg)
    \/ \E resp \in Responses : main_query_rag_request(resp)
    \/ \E resp \in Responses : server_query_rag_request(resp)
    \/ query_rag_reply

SpecLive == InitLive /\ [][NextLive]_vars /\ Fairness

----------------------------------------------------------------------------
(* set_document_source, statement by statement, for calls that overlap *)

Threads == {"t1", "t2"}

CallStart == [pc |-> "start", url |-> NoUrl, file_sources |-> <<>>, source_id |-> ""]

\* main.py 57-61: open and json.load, or {} when the file is absent
conc_main_read(t, url) ==
    /\ variant = "main"
    /\ calls[t].pc = "start"
    /\ calls' = [calls EXCEPT ![t] = [pc |-> "read", url |-> url,
                                      file_sources |-> main_file_sources(file),
                                      source_id |-> ""]]
    /\ UNCHANGED <<variant, document_sources, file, q, ret, returned>>

\* main.py 64
conc_main_source_id(t) ==
    /\ variant = "main"
    /\ calls[t].pc = "read"
    /\ calls' = [calls EXCEPT ![t].pc = "id",
                              ![t].source_id = main_source_id(calls[t].file_sources)]
    /\ UNCHANGED <<variant, document_sources, file, q, ret, returned>>

\* main.py 67
conc_main_memory(t) ==
    /\ variant = "main"
    /\ calls[t].pc = "id"
    /\ document_sources' = DictSet(document_sources, calls[t].source_id, calls[t].url)
    /\ calls' = [calls EXCEPT ![t].pc = "memory"]
    /\ UNCHANGED <<variant, file, q, ret, returned>>

\* main.py 70-79: the entry is added to this call's copy of the document,
\* the copy is written over the file, the id is returned
conc_main_save(t) ==
    /\ variant = "main"
    /\ calls[t].pc = "memory"
    /\ file' = Object(DictSet(calls[t].file_sources, calls[t].source_id,
                              UrlObject(calls[t].url, "")))
    /\ calls' = [calls EXCEPT ![t].pc = "done"]
    /\ ret' = Ret("set_document_source", "Document source registered with ID: ",
                  calls[t].source_id, 0, calls[t].url)
    /\ returned' = returned \cup {[id |-> calls[t].source_id, url |-> calls[t].url]}
    /\ UNCHANGED <<variant, document_sources, q>>

\* server.py 38-42: the URL is valid, the id is computed
conc_server_source_id(t, url) ==
    /\ variant = "server"
    /\ calls[t].pc = "start"
    /\ WellFormed(url)
    /\ calls' = [calls EXCEPT ![t] = [pc |-> "id", url |-> url, file_sources |-> <<>>,
                                      source_id |-> server_source_id(document_sources)]]
    /\ UNCHANGED <<variant, document_sources, file, q, ret, returned>>

\* server.py 43-44
conc_server_memory(t) ==
    /\ variant = "server"
    /\ calls[t].pc = "id"
    /\ document_sources' = DictSet(document_sources, calls[t].source_id, calls[t].url)
    /\ calls' = [calls EXCEPT ![t].pc = "done"]
    /\ ret' = Ret("set_document_source", "Document source registered with ID: ",
                  calls[t].source_id, 0, calls[t].url)
    /\ returned' = returned \cup {[id |-> calls[t].source_id, url |-> calls[t].url]}
    /\ UNCHANGED <<variant, file, q>>

\* Two calls arrive in a process that has registered nothing or one source
InitConc ==
    /\ variant \in {"main", "server"}
    /\ document_sources \in {<<>>, <<[k |-> "1", v |-> UrlA]>>}
    /\ file = IF variant = "main" /\ document_sources # <<>>
              THEN Object(<<[k |-> "1", v |-> UrlObject(UrlA, "")]>>)
              ELSE Absent
    /\ returned = {[id |-> document_sources[i].k, url |-> document_sources[i].v] :
                        i \in 1..Len(document_sources)}
    /\ q = QIdle
    /\ ret = Ret("start", "", "", 0, <<>>)
    /\ calls = [t \in Threads |-> CallStart]

NextConc ==
    \/ \E t \in Threads, url \in {UrlA, UrlB} : conc_main_read(t, url)
    \/ \E t \in Threads : conc_main_source_id(t)
    \/ \E t \in Threads : conc_main_memory(t)
    \/ \E t \in Threads : conc_main_save(t)
    \/ \E t \in Threads, url \in {UrlA, UrlB} : conc_server_source_id(t, url)
    \/ \E t \in Threads : conc_server_memory(t)

SpecConc == InitConc /\ [][NextConc]_vars

----------------------------------------------------------------------------
(* Properties *)

Registered == "Document source registered with ID: "
RegistryEmpty == "Error: No document sources registered"
NoValidIds == "Error: No valid source IDs provided"
InvalidFormat == "Error: Invalid source format for ID "
ValidationErrors == {"Error: Invalid URL format", "Error: URL is required"}

SetReturned(r) == r.op = "set_document_source" /\ r.msg = Registered
QueryReturned == q.pc = "done" /\ ret.op = "query_rag" /\ ret.msg = ""
AllTargeted == q.none \/ Len(q.source_ids) = 0
ResultIds(results) == [i \in 1..Len(results) |-> results[i].id]
Range(seq) == {seq[i] : i \in 1..Len(seq)}

\* C1: a query_rag call aimed at all sources returns one result line per
\* registered source, in the registry's insertion order, each line carrying its
\* source id and built from that source's own response only (a failed request
\* yields the failure line of that source and nothing else); nothing is
\* returned before every targeted source has its line.
C1_OneOutcomePerSource ==
    /\ (QueryReturned /\ AllTargeted) =>
            /\ ResultIds(ret.val) = DictKeys(document_sources)
            /\ \A i \in 1..Len(ret.val) :
                    /\ q.requests[i].url = document_sources[i].v
                    /\ (ret.val[i].msg = "Error - ") = q.requests[i].resp.exc
                    /\ (ret.val[i].msg \in {"Failed to retrieve content. Status code: ",
                                            "Failed to retrieve content"})
                        = (~q.requests[i].resp.exc /\ q.requests[i].resp.status # 200)
    /\ (ret.op = "query_rag" /\ ret.msg = "") =>
            (q.pc = "done" /\ Len(ret.val) = Len(q.targets))
    /\ q.pc = "running" => (ret.op = "query_rag" /\ ret.msg = "pending")

\* Three sources: one answers 200, one answers 500, one is unreachable.
C1_Witness ==
    /\ variant = "main"
    /\ QueryReturned /\ AllTargeted
    /\ Len(ret.val) = 3
    /\ \E i, j, k \in 1..3 :
            /\ q.requests[i].resp = Response(200, "{}")
            /\ q.requests[j].resp = Response(500, "oops")
            /\ q.requests[k].resp = TransportError

\* C2: a set_document_source call that registers a well-formed URL returns an
\* id that was not a key of the registry before the call, and afterwards the
\* registry maps that id to the submitted URL.
C2_FreshId ==
    [][(SetReturned(ret') /\ WellFormed(ret'.val)) =>
            /\ ~DictHas(document_sources, ret'.id)
            /\ DictHas(document_sources', ret'.id)
            /\ DictGet(document_sources', ret'.id) = ret'.val]_vars

\* C3: a set_document_source call whose URL lacks a scheme or a host returns
\* a validation error and changes neither the registry nor the durable document.
C3_MalformedUrlRejected ==
    [][(ret'.op = "set_document_source" /\ ~WellFormed(ret'.val)) =>
            /\ ret'.msg \in ValidationErrors
            /\ document_sources' = document_sources
            /\ file' = file]_vars

\* C4: with an empty registry every query_rag call returns the registry-empty
\* error at once and issues no HTTP request, whatever the durable document holds.
C4_EmptyRegistryNoDispatch ==
    (q.pc # "idle" /\ Len(document_sources) = 0) =>
        /\ q.pc = "done"
        /\ ret.op = "query_rag" /\ ret.msg = RegistryEmpty
        /\ q.requests = <<>> /\ q.results = <<>>

\* After a restart: the durable document holds sources, the registry is empty.
C4_Witness ==
    /\ q.pc = "done" /\ ret.op = "query_rag" /\ ret.msg = RegistryEmpty
    /\ Len(document_sources) = 0
    /\ file.kind = "object" /\ Len(file.entries) > 0
    /\ returned # {}
    /\ ~q.none /\ Len(q.source_ids) > 0

\* C5: when load_document_sources_from_file reports an invalid entry, the
\* registry is what it was before the call.
C5_FailedLoadLeavesRegistry ==
    [][(ret'.op = "load_document_sources_from_file" /\ ret'.msg = InvalidFormat) =>
            document_sources' = document_sources]_vars

\* What a restart followed by load_document_sources_from_file on the durable
\* document leaves in the registry
Reload(f) ==
    IF f.kind # "object" THEN <<>>
    ELSE IF FirstBad(f.entries) # 0
         THEN LoadEntries(<<>>, f.entries, FirstBad(f.entries) - 1)
         ELSE LoadEntries(<<>>, f.entries, Len(f.entries))

\* C6: every [id, url] that set_document_source of main.py has returned is
\* reproduced by a restart followed by a load of the durable document.
C6_RoundTrip ==
    variant = "main" =>
        \A r \in returned :
            /\ DictHas(Reload(file), r.id)
            /\ DictGet(Reload(file), r.id) = r.url

\* C7: a successful registration of main.py on a well-formed durable document
\* keeps every entry of the document as it was and adds exactly one entry.
C7_AppendOnly ==
    [][(SetReturned(ret') /\ variant = "main" /\ file.kind = "object") =>
            /\ file'.kind = "object"
            /\ Len(file'.entries) = Len(file.entries) + 1
            /\ \A i \in 1..Len(file.entries) :
                    /\ DictHas(file'.entries, file.entries[i].k)
                    /\ DictGet(file'.entries, file.entries[i].k) = file.entries[i].v]_vars

\* C8: every response with a status in 200..299 gives a success line carrying
\* the response body, every other response a failure line carrying the status.
C8_StatusClass ==
    \A i \in 1..Len(q.results) :
        LET resp == q.requests[i].resp
            line == q.results[i]
        IN  ~resp.exc =>
                IF resp.status \in 200..299
                THEN line.msg = "" /\ line.text = resp.text
                ELSE /\ line.msg \in {"Failed to retrieve content. Status code: ",
                                      "Failed to retrieve content"}
                     /\ line.n = resp.status

\* The sources a call must contact, from its source_ids argument
Expected ==
    IF AllTargeted THEN DictKeySet(document_sources)
    ELSE Range(q.source_ids) \cap DictKeySet(document_sources)

\* C9: on a non-empty registry query_rag contacts every registered source when
\* source_ids is None or empty, and otherwise exactly the registered sources
\* named in source_ids, each once; unregistered ids give no error and no line
\* as long as one given id is registered.
C9_Selection ==
    (q.pc = "done" /\ Len(document_sources) > 0 /\ Expected # {}) =>
        /\ ret.op = "query_rag" /\ ret.msg = ""
        /\ Range(ResultIds(ret.val)) = Expected
        /\ Len(ret.val) = Cardinality(Expected)
        /\ Len(q.requests) = Len(ret.val)
        /\ \A i \in 1..Len(ret.val) :
                q.requests[i].url = DictGet(document_sources, ret.val[i].id)

\* A list naming a registered and an unregistered id
C9_Witness ==
    /\ QueryReturned
    /\ ~AllTargeted
    /\ Len(document_sources) > Cardinality(Expected)
    /\ \E id \in Range(q.source_ids) : ~DictHas(document_sources, id)
    /\ Expected # {}

\* C10: on a non-empty registry, a non-empty source_ids none of whose ids is
\* registered makes query_rag return the "no valid source IDs" error without
\* any HTTP request, in main.py and in server.py alike.
C10_NoValidIds ==
    (q.pc # "idle" /\ Len(document_sources) > 0 /\ ~AllTargeted /\ Expected = {}) =>
        /\ q.pc = "done"
        /\ ret.op = "query_rag" /\ ret.msg = NoValidIds
        /\ q.requests = <<>> /\ q.results = <<>>

C10_Witness ==
    /\ variant = "server"
    /\ q.pc = "done" /\ ret.op = "query_rag" /\ ret.msg = NoValidIds
    /\ Len(document_sources) = 2
    /\ Len(q.source_ids) = 2

\* C11: in main.py a registration of a well-formed URL, with no I/O failure,
\* on a durable document that is absent, unparsable or not an id-to-record
\* mapping succeeds as on an empty document: it returns id 1, and the registry
\* and the durable document both hold that record afterwards.
C11_MalformedDocumentTolerated ==
    [][\A source \in MainSources :
        (/\ ret'.op = "set_document_source"
         /\ main_set_document_source(source, "ok")
         /\ source.hasUrl /\ WellFormed(source.url)
         /\ file.kind # "object") =>
            /\ SetReturned(ret') /\ ret'.id = "1"
            /\ DictHas(document_sources', "1")
            /\ DictGet(document_sources', "1") = source.url
            /\ file'.kind = "object"
            /\ file'.entries = <<[k |-> "1", v |-> UrlObject(source.url, source.description)]>>]_vars

DocKeys(doc) == {doc.entries[i].k : i \in 1..Len(doc.entries)}

\* C12: a successful load_document_sources_from_file leaves the registry equal
\* to its state before the call overridden by the document: every id of the
\* document maps to its URL whatever the shape of the entry, every other id
\* keeps its URL, no other id appears, the reported count is the number of
\* entries of the document, and the durable document is not written.
C12_LoadOverrides ==
    [][\A doc \in {file} \cup ExternalDocs, io \in IOs :
        (/\ ret'.op = "load_document_sources_from_file"
         /\ ret'.msg = "Successfully loaded"
         /\ main_load_document_sources_from_file(doc, io)) =>
            /\ \A i \in 1..Len(doc.entries) :
                    /\ doc.entries[i].v.shape \in {"str", "obj"}
                    /\ DictHas(document_sources', doc.entries[i].k)
                    /\ DictGet(document_sources', doc.entries[i].k) = doc.entries[i].v.url
            /\ \A i \in 1..Len(document_sources) :
                    document_sources[i].k \notin DocKeys(doc) =>
                        /\ DictHas(document_sources', document_sources[i].k)
                        /\ DictGet(document_sources', document_sources[i].k)
                                = document_sources[i].v
            /\ DictKeySet(document_sources') = DictKeySet(document_sources) \cup DocKeys(doc)
            /\ Len(document_sources') = Cardinality(DictKeySet(document_sources'))
            /\ ret'.n = Len(doc.entries)
            /\ file' = file]_vars

\* DocMixed loaded over a registry that already held ids 1 and 2: id 1 kept
\* its place and took the URL of the document, id 2 is untouched, id k is new.
C12_Witness ==
    /\ ret.op = "load_document_sources_from_file" /\ ret.msg = "Successfully loaded"
    /\ ret.n = 2
    /\ DictKeys(document_sources) = <<"1", "2", "k">>
    /\ DictGet(document_sources, "1") = UrlA
    /\ DictGet(document_sources, "2") = UrlNoHost
    /\ DictGet(document_sources, "k") = UrlB

\* C13: no step of query_rag and no list_document_sources call changes the
\* registry or the durable document.
C13_ReadOnly ==
    [][(ret'.op \in {"query_rag", "list_document_sources"}) =>
            (document_sources' = document_sources /\ file' = file)]_vars

\* list_document_sources on an empty registry beside a loadable document
C13_Witness ==
    /\ ret.op = "list_document_sources"
    /\ ret.val = <<>>
    /\ document_sources = <<>>
    /\ file.kind = "object" /\ Len(Reload(file)) > 0

\* C14: in main.py a set_document_source call that returns an error leaves
\* the registry as it was.
C14_ErrorLeavesRegistry ==
    [][(variant = "main" /\ ret'.op = "set_document_source" /\ ret'.msg # Registered) =>
            document_sources' = document_sources]_vars

\* Position of the first occurrence of id in ids
FirstIndex(ids, id) ==
    CHOOSE i \in 1..Len(ids) : ids[i] = id /\ \A j \in 1..(i - 1) : ids[j] # id

\* C16: when source_ids names at least one registered id, the result lines
\* stand in the order in which their ids first occur in source_ids, and every
\* registered id of the list is contacted once and has exactly one line, also
\* when the list repeats it.
C16_FirstOccurrenceOrder ==
    (q.pc = "done" /\ ~AllTargeted /\ Expected # {}) =>
        /\ ret.op = "query_rag" /\ ret.msg = ""
        /\ Len(q.requests) = Len(ret.val)
        /\ Range(ResultIds(ret.val)) = Expected
        /\ \A i, j \in 1..Len(ret.val) :
                i < j => FirstIndex(q.source_ids, ret.val[i].id)
                            < FirstIndex(q.source_ids, ret.val[j].id)
        /\ \A i \in 1..Len(ret.val) :
                q.requests[i].url = DictGet(document_sources, ret.val[i].id)

\* source_ids = ["2", "1"] on a registry that holds 1 before 2
C16_Witness ==
    /\ QueryReturned
    /\ q.source_ids = <<"2", "1">>
    /\ ResultIds(ret.val) = <<"2", "1">>
    /\ \E i, j \in 1..Len(document_sources) :
            i < j /\ document_sources[i].k = "1" /\ document_sources[j].k = "2"

Decimal == <<"1", "2", "3", "4", "5", "6", "7", "8", "9">>

\* C18: in server.py the keys of the registry are always "1" .. "n" in
\* insertion order, n the number of registrations that succeeded; a
\* registration that succeeds returns the next number and adds one key, a
\* rejected one leaves the registry as it was.
C18_SequentialIds ==
    [][variant = "server" =>
        /\ DictKeys(document_sources') = SubSeq(Decimal, 1, Len(document_sources'))
        /\ SetReturned(ret') =>
                /\ ret'.id = Decimal[Len(document_sources) + 1]
                /\ Len(document_sources') = Len(document_sources) + 1
                /\ document_sources'[Len(document_sources')] = [k |-> ret'.id, v |-> ret'.val]
        /\ (ret'.op = "set_document_source" /\ ret'.msg # Registered) =>
                document_sources' = document_sources]_vars

\* Two registrations of different URLs have succeeded
C18_Witness ==
    /\ variant = "server"
    /\ SetReturned(ret) /\ ret.id = "2"
    /\ DictKeys(document_sources) = <<"1", "2">>
    /\ DictGet(document_sources, "1") # DictGet(document_sources, "2")

\* C15: once two overlapping set_document_source calls have both returned,
\* their ids differ and the registry holds both records, as does the durable
\* document in main.py.
C15_NoLostUpdate ==
    (\A t \in Threads : calls[t].pc = "done") =>
        /\ \A t, u \in Threads : t # u => calls[t].source_id # calls[u].source_id
        /\ \A t \in Threads :
                /\ DictHas(document_sources, calls[t].source_id)
                /\ DictGet(document_sources, calls[t].source_id) = calls[t].url
                /\ variant = "main" =>
                        /\ DictHas(file.entries, calls[t].source_id)
                        /\ DictGet(file.entries, calls[t].source_id).url = calls[t].url

\* The i-th request went to the i-th target while one result per request was
\* recorded, and a finished loop has contacted every target
InOrder ==
    /\ Len(q.requests) = Len(q.results)
    /\ Len(q.requests) <= Len(q.targets)
    /\ \A i \in 1..Len(q.requests) :
            /\ q.requests[i].url = q.targets[i].v
            /\ q.results[i].id = q.targets[i].k
    /\ (q.pc = "done") => Len(q.requests) = Len(q.targets)

\* C17: when every request ends in a response or an exception, a query_rag
\* call that has entered its loop returns, having contacted the targets one
\* at a time in their order.
C17_Terminates ==
    /\ []InOrder
    /\ (q.pc = "running") ~> (q.pc = "done" /\ ret.op = "query_rag")

\* A call over two sources has returned, one of its requests having failed
C17_Witness ==
    /\ q.pc = "done"
    /\ Len(q.requests) = 2
    /\ \E i \in 1..2 : q.requests[i].resp.exc
    /\ \E i \in 1..2 : ~q.requests[i].resp.exc

====
